---- MODULE Spec2Model ----
(***************************************************************************)
(* rtocBot: a Telegram bot that looks vehicles up in the RTOC offence      *)
(* system.  The model covers check/check.go (lookup client, vehicle list   *)
(* parsing, daily scheduler, sweep) and cmd/bot/bot.go (update loop and    *)
(* the on-demand /check goroutine).                                        *)
(*                                                                         *)
(* Time.  The clock counts half steps of the on-demand gap (10 minutes):   *)
(* an even value 2k is the instant k*10min after local (EAT) midnight, an  *)
(* odd value 2k+1 stands for the open interval between the instants k and  *)
(* k+1.  A sleep of d minutes moves a deadline by T(d), keeping parity.    *)
(* Stored times are relative to the midnight of the current day and are    *)
(* rebased when the clock passes midnight, so the model runs for ever.     *)
(* time.Sleep is taken to return at its deadline.                          *)
(***************************************************************************)
EXTENDS Integers, Sequences, FiniteSets, TLC

VARIABLES
    clock,        \* local (EAT) time of day, in half steps
    vehicles,     \* the VEHICLES setting, a string (sequence of characters)
    vehicleList,  \* check.ParseVehicles(vehicles)
    sched,        \* the goroutine running check.StartScheduler
    batches,      \* the goroutines started by /check
    update,       \* the update the loop of main is handling (NoUpdate: none, it waits)
    sent,         \* what the iteration sent with bot.Send (NoMsg if nothing)
    launched,     \* whether it started a goroutine, and for which registrations
    inputs,       \* environment: the updates that may arrive
    cmdFrom,      \* environment: the time of day from which they arrive
    maxLive,      \* environment: /check is not sent with that many goroutines alive
    main,         \* main: where it is (pc) and the settings it read besides VEHICLES
    call          \* a single call of one of the package's functions, with its result

vars == <<clock, vehicles, vehicleList, sched, batches, update, sent, launched,
          inputs, cmdFrom, maxLive, main, call>>

\* what never changes after main has started
settings == <<vehicles, vehicleList, inputs, cmdFrom, maxLive, main, call>>

\* the iteration of the loop over updates
iteration == <<update, sent, launched>>

----------------------------------------------------------------------------
(* Program constants *)

timeoutSec == 30
startHour == 18
startMin == 0
\* the sleep between two vehicles in the /check goroutine
checkGapMinutes == 10
dayHours == 24
\* the operator's chat, MASTER_ID
masterID == 7312133

gapAsOnDemand == checkGapMinutes

\* the sleep between two vehicles in checkAllVehicles
gapMinutes == 30

(* Bounds of the model *)

\* longest time a bot.Send call is let to take, in half steps
MaxSendTicks == 1
\* goroutines started by /check that may be alive at once
MaxBatches == 2
\* the same, where the operator waits for a check to end before the next /check
MaxLive == 1
\* updates arrive during CmdWindow half steps of the day, starting CmdLead half
\* steps before the daily start time when the sweep is to be met
CmdLead == 1
CmdWindow == 3
\* longest string given to ParseVehicles in a single call
MaxStrLen == 4

----------------------------------------------------------------------------
(* Time *)

\* minutes -> clock units
T(minutes) == (minutes \div checkGapMinutes) * 2

Day == T(dayHours * 60)

NoTime == 0 - (4 * Day)

IsInstant(t) == t % 2 = 0

\* A call that began at t has taken some time: no call returns in the instant
\* it was made.
Elapsed(t) == clock > t \/ ~IsInstant(clock)

\* now.After(next)
After(now, next) == now > next

\* time.Date(now.Year(), now.Month(), now.Day(), startHour, startMin, 0, 0, eat)
DateAt(now, hour, min) == (now - (now % Day)) + T(hour * 60 + min)

NextNoRoll(now) == DateAt(now, startHour, startMin)

NextAlwaysRoll(now) == DateAt(now, startHour, startMin) + T(dayHours * 60)

\* StartScheduler, lines 170-175: the trigger computed from now
NextTrigger(now) ==
    LET next == DateAt(now, startHour, startMin)
    IN  IF After(now, next) THEN next + T(dayHours * 60) ELSE next

SleepUntilNow(now, target) == now

\* time.Sleep(time.Until(next)): when it returns; at once when next is not after now
SleepUntil(now, target) == IF target > now THEN target ELSE now

\* http.Client{Timeout: timeoutSec}: a lookup returns within timeoutSec, which
\* is less than one clock step
LookupDeadline(t) == IF timeoutSec < checkGapMinutes * 60
                     THEN (IF IsInstant(t) THEN t + 1 ELSE t + 2)
                     ELSE t + 2 * (1 + timeoutSec \div (checkGapMinutes * 60))

SendDeadline(t) == t + MaxSendTicks

----------------------------------------------------------------------------
(* Strings: sequences of one-character strings *)

LowerCase ==
    <<"a", "b", "c", "d", "e", "f", "g", "h", "i", "j", "k", "l", "m",
      "n", "o", "p", "q", "r", "s", "t", "u", "v", "w", "x", "y", "z">>

UpperCase ==
    <<"A", "B", "C", "D", "E", "F", "G", "H", "I", "J", "K", "L", "M",
      "N", "O", "P", "Q", "R", "S", "T", "U", "V", "W", "X", "Y", "Z">>

Upper(c) ==
    IF \E k \in DOMAIN LowerCase : LowerCase[k] = c
    THEN UpperCase[CHOOSE k \in DOMAIN LowerCase : LowerCase[k] = c]
    ELSE c

\* strings.ToUpper
ToUpper(s) == [k \in DOMAIN s |-> Upper(s[k])]

IsSpace(c) == c = " "

RECURSIVE TrimLeft(_)
TrimLeft(s) == IF s # <<>> /\ IsSpace(Head(s)) THEN TrimLeft(Tail(s)) ELSE s

RECURSIVE TrimRight(_)
TrimRight(s) == IF s # <<>> /\ IsSpace(s[Len(s)])
                THEN TrimRight(SubSeq(s, 1, Len(s) - 1)) ELSE s

TrimLeftOnly(s) == TrimLeft(s)

\* strings.TrimSpace
TrimSpace(s) == TrimRight(TrimLeft(s))

\* strings.Split(s, ","): always at least one part
RECURSIVE SplitFrom(_, _, _)
SplitFrom(s, k, cur) ==
    IF k > Len(s) THEN <<cur>>
    ELSE IF s[k] = "," THEN <<cur>> \o SplitFrom(s, k + 1, <<>>)
    ELSE SplitFrom(s, k + 1, Append(cur, s[k]))

Split(s) == SplitFrom(s, 1, <<>>)

RECURSIVE ParseParts(_)
ParseParts(parts) ==
    IF parts = <<>> THEN <<>>
    ELSE LET v == TrimSpace(Head(parts))
         IN  (IF v # <<>> THEN <<ToUpper(v)>> ELSE <<>>) \o ParseParts(Tail(parts))

\* check.ParseVehicles
ParseVehicles(s) == ParseParts(Split(s))

\* values of the VEHICLES setting the model starts from
VehicleSettings ==
    { <<"a">>,
      <<" ", "a", " ", ",", "B", ",", ",">>,
      <<",">>,
      <<"a", ",", "b", ",", "a">> }

----------------------------------------------------------------------------
(* Lookup client *)

Nil == "nil"

NoErr == <<>>

ErrPost == <<"post request">>

ErrDecode == <<"decode response">>

ErrRateLimited == <<"rate limited (429): too many requests, try again later">>

ErrStatus(code) == <<"unexpected status code", code>>

\* a decoded APIResponse
SuccessBody ==
    [Status |-> "success", TotalPendingAmount |-> Nil,
     PendingTransactions |-> <<>>, InspectionData |-> <<>>]

\* what the upstream API may answer to one request
Responses ==
    { [post |-> "ok", StatusCode |-> 200, decodes |-> TRUE, body |-> SuccessBody],
      [post |-> "ok", StatusCode |-> 429, decodes |-> FALSE, body |-> Nil],
      [post |-> "ok", StatusCode |-> 500, decodes |-> FALSE, body |-> Nil] }

\* check.CheckVehicle: the value returned for the response resp to its one request
CheckVehicle(resp) ==
    IF resp.post = "fail" THEN [data |-> Nil, err |-> ErrPost]
    ELSE CASE resp.StatusCode = 200 ->
                IF resp.decodes THEN [data |-> resp.body, err |-> NoErr]
                ELSE [data |-> Nil, err |-> ErrDecode]
           [] resp.StatusCode = 429 -> [data |-> Nil, err |-> ErrRateLimited]
           [] OTHER -> [data |-> Nil, err |-> ErrStatus(resp.StatusCode)]

\* every kind of answer to a request: no answer (the transport failed), 200 with
\* a body that decodes or not, 429, and other statuses
AllResponses ==
    { [post |-> "fail", StatusCode |-> 0, decodes |-> FALSE, body |-> Nil],
      [post |-> "ok", StatusCode |-> 200, decodes |-> TRUE, body |-> SuccessBody],
      [post |-> "ok", StatusCode |-> 200, decodes |-> FALSE, body |-> Nil] }
    \cup { [post |-> "ok", StatusCode |-> code, decodes |-> FALSE, body |-> Nil] :
              code \in {201, 404, 429, 500} }

\* client.Post: the upstream answers the requests it receives with the responses
\* of the sequence upstream, in order; one request takes the first one
Post(upstream) == [resp |-> Head(upstream), rest |-> Tail(upstream)]

CheckVehicleRetrying(upstream) ==
    LET first == Post(upstream)
        again == Post(first.rest)
    IN  IF first.resp.post = "ok" /\ first.resp.StatusCode = 429
        THEN [r |-> CheckVehicle(again.resp), upstream |-> again.rest]
        ELSE [r |-> CheckVehicle(first.resp), upstream |-> first.rest]

\* check.CheckVehicle against an upstream: what it returns and the responses the
\* upstream has left to give
CheckVehicleOn(upstream) ==
    LET one == Post(upstream)
    IN  [r |-> CheckVehicle(one.resp), upstream |-> one.rest]

----------------------------------------------------------------------------
(* Result formatter: the text is a sequence of lines, each a tuple of the   *)
(* line's kind and the values printed in it                                 *)

\* date[:10] when len(date) > 10
DatePart(date) == IF Len(date) > 10 THEN SubSeq(date, 1, 10) ELSE date

RECURSIVE OffenceBlocks(_, _)
OffenceBlocks(txns, k) ==
    IF k > Len(txns) THEN <<>>
    ELSE << <<"offence", k, txns[k].Offence>>,
            <<"location", txns[k].Location>>,
            <<"charge", txns[k].Charge, txns[k].Penalty>>,
            <<"ref", txns[k].Reference>>,
            <<"issued", txns[k].IssuedDate>>,
            <<"status", txns[k].Status>> >> \o OffenceBlocks(txns, k + 1)

RECURSIVE InspectionBlocks(_, _)
InspectionBlocks(recs, k) ==
    IF k > Len(recs) THEN <<>>
    ELSE << <<"inspection", k, recs[k].ReasonEN, recs[k].FinalResult>>,
            <<"dates", DatePart(recs[k].InspectionDate), DatePart(recs[k].ValidUntil)>>,
            <<"region", recs[k].Region, recs[k].District>> >>
         \o (IF recs[k].Remarks # <<>> THEN << <<"remarks", recs[k].Remarks>> >> ELSE <<>>)
         \o InspectionBlocks(recs, k + 1)

FormatResultUnlessError(registration, data) ==
    LET head == << <<"title", registration>>, <<"rule">> >>
    IN  IF data.Status = "error" THEN head \o << <<"no results">> >>
        ELSE head
             \o (IF Len(data.PendingTransactions) > 0
                 THEN << <<"pending offences", Len(data.PendingTransactions),
                           IF data.TotalPendingAmount # Nil
                           THEN data.TotalPendingAmount ELSE "N/A">> >>
                      \o OffenceBlocks(data.PendingTransactions, 1)
                 ELSE << <<"no pending offences">> >>)
             \o (IF Len(data.InspectionData) > 0
                 THEN << <<"inspection records", Len(data.InspectionData)>> >>
                      \o InspectionBlocks(data.InspectionData, 1)
                 ELSE <<>>)

\* check.FormatResult
FormatResult(registration, data) ==
    LET head == << <<"title", registration>>, <<"rule">> >>
    IN  IF data.Status # "success" THEN head \o << <<"no results">> >>
        ELSE head
             \o (IF Len(data.PendingTransactions) > 0
                 THEN << <<"pending offences", Len(data.PendingTransactions),
                           IF data.TotalPendingAmount # Nil
                           THEN data.TotalPendingAmount ELSE "N/A">> >>
                      \o OffenceBlocks(data.PendingTransactions, 1)
                 ELSE << <<"no pending offences">> >>)
             \o (IF Len(data.InspectionData) > 0
                 THEN << <<"inspection records", Len(data.InspectionData)>> >>
                      \o InspectionBlocks(data.InspectionData, 1)
                 ELSE <<>>)

\* fmt.Sprintf("Failed to check *%s*: %s", reg, err.Error())
FailedText(reg, err) == << <<"failed to check", reg, err>> >>

\* the text sent for one vehicle, by the sweep and by the /check goroutine alike
ResultText(reg, r) ==
    IF r.err # NoErr THEN FailedText(reg, r.err) ELSE FormatResult(reg, r.data)

NoMsg == <<>>

----------------------------------------------------------------------------
(* Processes.  A goroutine that checks vehicles one after the other is a    *)
(* record: pc (where it is), regs and i (the list it ranges over and the    *)
(* 1-based position), at (when the call in progress began), wake (when the  *)
(* sleep in progress ends), ended (when the previous vehicle's processing   *)
(* ended), msg (the text being sent), and two history fields, log (the      *)
(* calls and sleeps of the run so far) and failed (whether the lookup or    *)
(* the send of some vehicle of the run has failed).  pc is "done" when the  *)
(* range is over; the function then returns at once.                        *)

Entry(ev, k, reg) == [ev |-> ev, i |-> k, reg |-> reg]

Idle ==
    [pc |-> "none", regs |-> <<>>, i |-> 0, at |-> NoTime, wake |-> NoTime,
     ended |-> NoTime, msg |-> NoMsg, log |-> <<>>, failed |-> FALSE]

FirstIterationFromLast(regs) ==
    IF regs = <<>>
    THEN [Idle EXCEPT !.pc = "done"]
    ELSE [Idle EXCEPT !.pc = "lookup", !.regs = regs, !.i = Len(regs), !.at = clock,
                      !.log = <<Entry("lookup", Len(regs), regs[Len(regs)])>>]

\* range over regs: the first iteration, entered without a sleep
FirstIteration(regs) ==
    IF regs = <<>>
    THEN [Idle EXCEPT !.pc = "done"]
    ELSE [Idle EXCEPT !.pc = "lookup", !.regs = regs, !.i = 1, !.at = clock,
                      !.log = <<Entry("lookup", 1, regs[1])>>]

\* CheckVehicle returned r: build the text and call the send function
AfterLookup(p, r) ==
    [p EXCEPT !.pc = "notify", !.at = clock, !.ended = NoTime,
              !.msg = ResultText(p.regs[p.i], r),
              !.log = Append(p.log, Entry("notify", p.i, p.regs[p.i])),
              !.failed = (p.failed \/ r.err # NoErr)]

NoSleepAfterSend(p, ok, gap) ==
    IF p.i < Len(p.regs)
    THEN [p EXCEPT !.pc = "lookup", !.i = p.i + 1, !.at = clock, !.msg = NoMsg,
                   !.ended = clock, !.failed = (p.failed \/ ~ok),
                   !.log = Append(p.log, Entry("lookup", p.i + 1, p.regs[p.i + 1]))]
    ELSE [p EXCEPT !.pc = "done", !.at = NoTime, !.msg = NoMsg,
                   !.failed = (p.failed \/ ~ok)]

StopOnFailureAfterSend(p, ok, gap) ==
    IF p.i < Len(p.regs) /\ ~(p.failed \/ ~ok)
    THEN [p EXCEPT !.pc = "gap", !.i = p.i + 1, !.at = NoTime, !.msg = NoMsg,
                   !.ended = clock, !.wake = clock + T(gap), !.failed = (p.failed \/ ~ok),
                   !.log = Append(p.log, Entry("sleep", p.i + 1, p.regs[p.i + 1]))]
    ELSE [p EXCEPT !.pc = "done", !.at = NoTime, !.msg = NoMsg,
                   !.failed = (p.failed \/ ~ok)]

RetryAfterSend(p, ok, gap) ==
    IF ~ok /\ Cardinality({k \in DOMAIN p.log :
                              p.log[k].ev = "notify" /\ p.log[k].i = p.i}) < 2
    THEN [p EXCEPT !.at = clock, !.failed = TRUE,
                   !.log = Append(p.log, Entry("notify", p.i, p.regs[p.i]))]
    ELSE IF p.i < Len(p.regs)
    THEN [p EXCEPT !.pc = "gap", !.i = p.i + 1, !.at = NoTime, !.msg = NoMsg,
                   !.ended = clock, !.wake = clock + T(gap), !.failed = (p.failed \/ ~ok),
                   !.log = Append(p.log, Entry("sleep", p.i + 1, p.regs[p.i + 1]))]
    ELSE [p EXCEPT !.pc = "done", !.at = NoTime, !.msg = NoMsg,
                   !.failed = (p.failed \/ ~ok)]

AbortOnFailureAfterSend(p, ok, gap) ==
    IF p.failed \/ ~ok
    THEN [p EXCEPT !.pc = "aborted", !.at = NoTime, !.msg = NoMsg, !.failed = TRUE]
    ELSE IF p.i < Len(p.regs)
    THEN [p EXCEPT !.pc = "gap", !.i = p.i + 1, !.at = NoTime, !.msg = NoMsg,
                   !.ended = clock, !.wake = clock + T(gap), !.failed = (p.failed \/ ~ok),
                   !.log = Append(p.log, Entry("sleep", p.i + 1, p.regs[p.i + 1]))]
    ELSE [p EXCEPT !.pc = "done", !.at = NoTime, !.msg = NoMsg,
                   !.failed = (p.failed \/ ~ok)]

\* the send returned (ok or with an error, which is only logged): next
\* iteration, which sleeps gap minutes first, or the end of the range
AfterSend(p, ok, gap) ==
    IF p.i < Len(p.regs)
    THEN [p EXCEPT !.pc = "gap", !.i = p.i + 1, !.at = NoTime, !.msg = NoMsg,
                   !.ended = clock, !.wake = clock + T(gap), !.failed = (p.failed \/ ~ok),
                   !.log = Append(p.log, Entry("sleep", p.i + 1, p.regs[p.i + 1]))]
    ELSE [p EXCEPT !.pc = "done", !.at = NoTime, !.msg = NoMsg,
                   !.failed = (p.failed \/ ~ok)]

\* the sleep between two vehicles is over: CheckVehicle(reg) is called
AfterGap(p) ==
    [p EXCEPT !.pc = "lookup", !.at = clock, !.wake = NoTime,
              !.log = Append(p.log, Entry("lookup", p.i, p.regs[p.i]))]

----------------------------------------------------------------------------
(* check.StartScheduler and check.checkAllVehicles.  sched.pc is "loop" at  *)
(* the head of the for loop (when checkAllVehicles has just returned,       *)
(* sched.run holds the finished sweep), "sleep" in time.Sleep(waitDuration) *)
(* and "sweep" inside checkAllVehicles, where sched.run is the sweep's      *)
(* record.  sched.next is the loop's variable next, sched.wake is when the  *)
(* sleep returns; now is the clock the step reads.                          *)

SchedNext ==
    /\ sched.pc = "loop"
    /\ Elapsed(sched.run.at)
    /\ LET now == clock
           next == NextTrigger(now)
       IN  sched' = [sched EXCEPT !.pc = "sleep", !.next = next,
                                  !.wake = SleepUntil(now, next), !.run = Idle]
    /\ UNCHANGED <<clock, settings, batches, iteration>>

SchedWake ==
    /\ sched.pc = "sleep"
    /\ clock = sched.wake
    /\ LET run == FirstIteration(vehicleList)
       IN  sched' = [sched EXCEPT !.pc = IF run.pc = "done" THEN "loop" ELSE "sweep",
                                  !.next = NoTime, !.wake = NoTime,
                                  !.run = IF run.pc = "done"
                                          THEN [run EXCEPT !.at = clock] ELSE run]
    /\ UNCHANGED <<clock, settings, batches, iteration>>

SweepLookupReturn ==
    /\ sched.pc = "sweep"
    /\ sched.run.pc = "lookup"
    /\ Elapsed(sched.run.at)
    /\ \E resp \in Responses :
          sched' = [sched EXCEPT !.run = AfterLookup(sched.run, CheckVehicle(resp))]
    /\ UNCHANGED <<clock, settings, batches, iteration>>

SweepNotifyReturn ==
    /\ sched.pc = "sweep"
    /\ sched.run.pc = "notify"
    /\ Elapsed(sched.run.at)
    /\ \E ok \in BOOLEAN :
          LET run == AfterSend(sched.run, ok, gapMinutes)
          IN  sched' = [sched EXCEPT !.pc = IF run.pc = "done" THEN "loop" ELSE "sweep",
                                     !.run = run]
    /\ UNCHANGED <<clock, settings, batches, iteration>>

SweepGapOver ==
    /\ sched.pc = "sweep"
    /\ sched.run.pc = "gap"
    /\ clock = sched.run.wake
    /\ sched' = [sched EXCEPT !.run = AfterGap(sched.run)]
    /\ UNCHANGED <<clock, settings, batches, iteration>>

----------------------------------------------------------------------------
(* main: reading the settings and starting, lines 36-84.  main.pc is "boot" *)
(* when main is entered, "exited" after one of the returns of lines 42-74   *)
(* and "serving" from the go statement of line 79 on.                       *)

Digits == <<"0", "1", "2", "3", "4", "5", "6", "7", "8", "9">>

IsDigit(c) == \E k \in DOMAIN Digits : Digits[k] = c

DigitValue(c) == (CHOOSE k \in DOMAIN Digits : Digits[k] = c) - 1

RECURSIVE DigitsValue(_, _)
DigitsValue(s, acc) ==
    IF s = <<>> THEN acc ELSE DigitsValue(Tail(s), (acc * 10) + DigitValue(Head(s)))

\* strconv.ParseInt(s, 10, 64), for strings far shorter than the 64-bit range
ParseInt(s) ==
    LET signed == s # <<>> /\ Head(s) \in {"+", "-"}
        body == IF signed THEN Tail(s) ELSE s
    IN  IF body = <<>> \/ \E k \in DOMAIN body : ~IsDigit(body[k])
        THEN [value |-> 0, ok |-> FALSE]
        ELSE [value |-> IF Head(s) = "-" THEN 0 - DigitsValue(body, 0)
                        ELSE DigitsValue(body, 0),
              ok |-> TRUE]

\* the MASTER_ID setting that names the operator's chat
MasterSetting == <<"7", "3", "1", "2", "1", "3", "3">>

\* values of MASTER_ID the model starts from: missing, not a number, and the
\* operator's chat
MasterSettings == { <<>>, <<"x">>, <<"-">>, <<"7", "x">>, MasterSetting }

NoError == ""

StartupErrorNoURL(vehiclesStr, m) ==
    IF m.bot_token = "" THEN "Bot token not provided"
    ELSE IF vehiclesStr = <<>> THEN "Vehicles not provided"
    ELSE IF m.masterIDStr = <<>> THEN "Master ID not provided"
    ELSE IF ~ParseInt(m.masterIDStr).ok THEN "Invalid master ID"
    ELSE IF ~m.botOK THEN "failed to create bot api instance"
    ELSE NoError

\* main, lines 42-74: the error main logs and returns on, NoError if none
StartupError(vehiclesStr, m) ==
    IF m.bot_token = "" THEN "Bot token not provided"
    ELSE IF vehiclesStr = <<>> THEN "Vehicles not provided"
    ELSE IF m.masterIDStr = <<>> THEN "Master ID not provided"
    ELSE IF ~ParseInt(m.masterIDStr).ok THEN "Invalid master ID"
    ELSE IF m.apiURL = "" THEN "RTOC API URL not provided"
    ELSE IF ~m.botOK THEN "failed to create bot api instance"
    ELSE NoError

\* the settings main reads besides VEHICLES; botOK is whether NewBotAPI succeeds
Settings(token, master, url, botOK) ==
    [pc |-> "boot", bot_token |-> token, masterIDStr |-> master, apiURL |-> url,
     botOK |-> botOK]

GoodSettings == Settings("token", MasterSetting, "url", TRUE)

AllSettings ==
    { Settings(token, master, url, botOK) :
         token \in {"", "token"}, master \in MasterSettings, url \in {"", "url"},
         botOK \in BOOLEAN }

\* main runs up to the loop over updates, or returns
MainStart ==
    /\ main.pc = "boot"
    /\ IF StartupError(vehicles, main) # NoError
       THEN /\ main' = [main EXCEPT !.pc = "exited"]
            /\ UNCHANGED <<vehicleList, sched>>
       ELSE /\ main' = [main EXCEPT !.pc = "serving"]
            /\ vehicleList' = ParseVehicles(vehicles)
            /\ sched' = [sched EXCEPT !.pc = "loop"]
    /\ UNCHANGED <<clock, vehicles, inputs, cmdFrom, maxLive, call, batches, iteration>>

----------------------------------------------------------------------------
(* main: the update loop and the goroutine started by /check *)

start_txt == <<"Use /check to check for vehicle road traffic offences ...">>

help_txt == <<"Commands for this @rtocbot are: /start, /check <REG>">>

unknown_cmd == <<"I don't know that command">>

\* fmt.Sprintf("Checking %d vehicle(s)...", len(regs))
CheckingText(regs) == <<"Checking vehicle(s)", Len(regs)>>

otherID == masterID + 1

Update(chat, kind, command, args) ==
    [chat |-> chat, kind |-> kind, command |-> command, args |-> args]

NoUpdate == Update(0, "none", "", <<>>)

\* text after a command: none, blank, a registration of no configured list,
\* one of the configured lists
Arguments == { <<>>, <<" ">>, <<" ", "c">>, <<"a", " ">> }

\* the updates the model draws from: from the operator's chat and from another
\* one; with no message, with a message that is no command, and with each command
Updates ==
    { Update(c, "nil", "", <<>>) : c \in {masterID, otherID} }
    \cup { Update(c, "text", "", <<>>) : c \in {masterID, otherID} }
    \cup { Update(c, "command", cmd, args) :
              c \in {masterID, otherID}, cmd \in {"start", "help", "check", "stop"},
              args \in Arguments }

\* the operator's /check, the one update that reaches the rest of the program
CheckUpdates == { Update(masterID, "command", "check", <<>>) }

Nothing == [reply |-> NoMsg, started |-> FALSE, regs |-> <<>>]

RouteAnyChat(u) ==
    IF u.kind # "command" THEN Nothing
    ELSE CASE u.command = "check" ->
                LET args == TrimSpace(u.args)
                    regs == IF args # <<>> THEN <<ToUpper(args)>> ELSE vehicleList
                IN  [reply |-> CheckingText(regs), started |-> TRUE, regs |-> regs]
           [] OTHER -> [Nothing EXCEPT !.reply = unknown_cmd]

RouteArgInList(u) ==
    IF u.kind = "nil" \/ u.chat # masterID \/ u.kind # "command" THEN Nothing
    ELSE CASE u.command = "check" ->
                LET args == TrimSpace(u.args)
                    regs == IF args # <<>> /\ \E k \in DOMAIN vehicleList :
                                                  vehicleList[k] = ToUpper(args)
                            THEN <<ToUpper(args)>> ELSE vehicleList
                IN  [reply |-> CheckingText(regs), started |-> TRUE, regs |-> regs]
           [] OTHER -> [Nothing EXCEPT !.reply = unknown_cmd]

RouteUnknownSilent(u) ==
    IF u.kind = "nil" \/ u.chat # masterID \/ u.kind # "command" THEN Nothing
    ELSE CASE u.command = "start" -> [Nothing EXCEPT !.reply = start_txt]
           [] u.command = "help" -> [Nothing EXCEPT !.reply = help_txt]
           [] u.command = "check" ->
                LET args == TrimSpace(u.args)
                    regs == IF args # <<>> THEN <<ToUpper(args)>> ELSE vehicleList
                IN  [reply |-> CheckingText(regs), started |-> TRUE, regs |-> regs]
           [] OTHER -> Nothing

\* the body of the loop over updates, lines 92-161: what is sent with bot.Send
\* and the list a goroutine is started for
Route(u) ==
    IF u.kind = "nil" THEN Nothing
    ELSE IF u.chat # masterID THEN Nothing
    ELSE IF u.kind # "command" THEN Nothing
    ELSE CASE u.command = "start" -> [Nothing EXCEPT !.reply = start_txt]
           [] u.command = "help" -> [Nothing EXCEPT !.reply = help_txt]
           [] u.command = "check" ->
                LET args == TrimSpace(u.args)
                    regs == IF args # <<>> THEN <<ToUpper(args)>> ELSE vehicleList
                IN  [reply |-> CheckingText(regs), started |-> TRUE, regs |-> regs]
           [] OTHER -> [Nothing EXCEPT !.reply = unknown_cmd]

Slots == 1 .. MaxBatches

Free(b) == batches[b].pc = "none"

StartT == T(startHour * 60 + startMin)

InCmdWindow == cmdFrom <= clock /\ clock < cmdFrom + CmdWindow

ReceivingWhenNoGoroutine ==
    main.pc = "serving" /\ update = NoUpdate /\ \A b \in Slots : Free(b)

\* main is at the range statement of line 91, ready for the next update
Receiving == main.pc = "serving" /\ update = NoUpdate

\* an update arrives and the body of the loop over updates runs for it
HandleUpdate ==
    /\ InCmdWindow
    /\ Receiving
    /\ \E u \in inputs :
          LET r == Route(u)
          IN  /\ update' = u
              /\ sent' = r.reply
              /\ launched' = [started |-> r.started, regs |-> r.regs]
              /\ IF r.started
                 THEN \E b \in Slots :
                         /\ Cardinality({c \in Slots : ~Free(c)}) < maxLive
                         /\ Free(b)
                         /\ \A c \in Slots : c < b => ~Free(c)
                         /\ batches' = [batches EXCEPT ![b] =
                                           [Idle EXCEPT !.pc = "spawned", !.regs = r.regs]]
                 ELSE batches' = batches
    /\ UNCHANGED <<clock, settings, sched>>

\* the iteration is over: main waits for the next update
AwaitUpdate ==
    /\ update # NoUpdate
    /\ update' = NoUpdate
    /\ sent' = NoMsg
    /\ launched' = [started |-> FALSE, regs |-> <<>>]
    /\ UNCHANGED <<clock, settings, sched, batches>>

\* the goroutine returns
BatchExit(b) ==
    /\ batches[b].pc = "done"
    /\ batches' = [batches EXCEPT ![b] = Idle]
    /\ UNCHANGED <<clock, settings, sched, iteration>>

\* the goroutine starts running: for i, reg := range registrations
BatchStart(b) ==
    /\ batches[b].pc = "spawned"
    /\ batches' = [batches EXCEPT ![b] = FirstIteration(batches[b].regs)]
    /\ UNCHANGED <<clock, settings, sched, iteration>>

BatchLookupReturn(b) ==
    /\ batches[b].pc = "lookup"
    /\ Elapsed(batches[b].at)
    /\ \E resp \in Responses :
          batches' = [batches EXCEPT ![b] = AfterLookup(batches[b], CheckVehicle(resp))]
    /\ UNCHANGED <<clock, settings, sched, iteration>>

BatchSendReturn(b) ==
    /\ batches[b].pc = "notify"
    /\ Elapsed(batches[b].at)
    /\ \E ok \in BOOLEAN :
          batches' = [batches EXCEPT ![b] = AfterSend(batches[b], ok, checkGapMinutes)]
    /\ UNCHANGED <<clock, settings, sched, iteration>>

BatchGapOver(b) ==
    /\ batches[b].pc = "gap"
    /\ clock = batches[b].wake
    /\ batches' = [batches EXCEPT ![b] = AfterGap(batches[b])]
    /\ UNCHANGED <<clock, settings, sched, iteration>>

----------------------------------------------------------------------------
(* Single calls of the functions of package check: call holds the function, *)
(* its argument and what it returned.                                       *)

\* a PendingTransaction
Txn(offence) ==
    [Reference |-> "R1", IssuedDate |-> "2024-01-01", Operator |-> "op",
     Vehicle |-> "A", Licence |-> "L1", Location |-> "loc", Offence |-> offence,
     Charge |-> "30000", Penalty |-> "0", Status |-> "PENDING"]

\* an InspectionData
Inspection(date, remarks) ==
    [ID |-> 1, VirNo |-> "V1", FinalResult |-> "PASS", Inspector |-> "insp",
     Region |-> "reg", District |-> "dis", InspectionDate |-> date,
     ValidUntil |-> date, ReasonEN |-> "annual", Remarks |-> remarks]

\* "2024-01-01" and "2024-01-01T00:00:00", shortened to 2 and 12 characters
\* around the cut at 10
ShortDate == <<"2", "4">>

LongDate == <<"2", "0", "2", "4", "-", "0", "1", "-", "0", "1", "T", "0">>

\* decoded responses: every status with and without offences and inspections
FormatInputs ==
    { [Status |-> st, TotalPendingAmount |-> total,
       PendingTransactions |-> txns, InspectionData |-> recs] :
         st \in {"success", "error", ""},
         total \in {Nil, "30000"},
         txns \in { <<>>, <<Txn("speeding")>>, <<Txn("speeding"), Txn("parking")>> },
         recs \in { <<>>, <<Inspection(ShortDate, <<>>)>>,
                    <<Inspection(LongDate, <<"r">>)>> } }

\* the characters of the strings given to ParseVehicles
Alphabet == {"a", "B", " ", ","}

StringsUpTo(n) == UNION { [1 .. k -> Alphabet] : k \in 0 .. n }

\* " t945cap , T267DFF ,,"
ExampleVehicles ==
    <<" ", "t", "9", "4", "5", "c", "a", "p", " ", ",", " ",
      "T", "2", "6", "7", "D", "F", "F", " ", ",", ",">>

ParseInputs == StringsUpTo(MaxStrLen) \cup VehicleSettings \cup {ExampleVehicles}

CallCheckVehicle ==
    /\ \E first, second \in AllResponses :
          call' = [fn |-> "CheckVehicle", in |-> <<first, second>>,
                   out |-> CheckVehicleOn(<<first, second>>)]
    /\ UNCHANGED <<clock, vehicles, vehicleList, inputs, cmdFrom, maxLive, main,
                   sched, batches, iteration>>

CallFormatResult ==
    /\ \E data \in FormatInputs :
          call' = [fn |-> "FormatResult", in |-> data,
                   out |-> FormatResult(<<"A">>, data)]
    /\ UNCHANGED <<clock, vehicles, vehicleList, inputs, cmdFrom, maxLive, main,
                   sched, batches, iteration>>

CallParseVehicles ==
    /\ \E str \in ParseInputs :
          call' = [fn |-> "ParseVehicles", in |-> str, out |-> ParseVehicles(str)]
    /\ UNCHANGED <<clock, vehicles, vehicleList, inputs, cmdFrom, maxLive, main,
                   sched, batches, iteration>>

----------------------------------------------------------------------------
(* The clock *)

\* whether time may pass with p where it is
CanWait(p) ==
    CASE p.pc = "gap" -> clock < p.wake
      [] p.pc = "lookup" -> clock < LookupDeadline(p.at)
      [] p.pc = "notify" -> clock < SendDeadline(p.at)
      [] p.pc \in {"spawned", "done"} -> FALSE
      [] OTHER -> TRUE

Rebase(t) == IF t = NoTime THEN NoTime ELSE t - Day

RebaseRun(p) ==
    [p EXCEPT !.at = Rebase(p.at), !.wake = Rebase(p.wake), !.ended = Rebase(p.ended)]

Tick ==
    /\ main.pc = "serving"
    /\ CASE sched.pc = "sleep" -> clock < sched.wake
         [] sched.pc = "sweep" -> CanWait(sched.run)
         [] OTHER -> ~Elapsed(sched.run.at)
    /\ \A b \in Slots : CanWait(batches[b])
    /\ update = NoUpdate
    /\ IF clock + 1 < Day
       THEN /\ clock' = clock + 1
            /\ UNCHANGED <<sched, batches>>
       ELSE /\ clock' = 0
            /\ sched' = [sched EXCEPT !.next = Rebase(sched.next),
                                      !.wake = Rebase(sched.wake),
                                      !.run = RebaseRun(sched.run)]
            /\ batches' = [b \in Slots |-> RebaseRun(batches[b])]
    /\ UNCHANGED <<settings, iteration>>

----------------------------------------------------------------------------
(* The program *)

NoCall == [fn |-> "none", in |-> <<>>, out |-> <<>>]

\* main is entered: nothing is parsed, no goroutine runs
AtEntry ==
    /\ vehicleList = <<>>
    /\ sched = [pc |-> "none", next |-> NoTime, wake |-> NoTime, run |-> Idle]
    /\ call = NoCall
    /\ batches = [b \in Slots |-> Idle]
    /\ update = NoUpdate
    /\ sent = NoMsg
    /\ launched = [started |-> FALSE, regs |-> <<>>]

\* The program started at any time of the day; the operator sends /check around
\* the daily start time.
Init ==
    /\ AtEntry
    /\ vehicles \in VehicleSettings
    /\ main = GoodSettings
    /\ clock \in 0 .. (Day - 1)
    /\ inputs = CheckUpdates
    /\ cmdFrom = StartT - CmdLead
    /\ maxLive = MaxLive

\* The program started in the morning, with settings of every kind; updates of
\* every kind arrive then.
InitCmd ==
    /\ AtEntry
    /\ vehicles \in VehicleSettings \cup {<<>>}
    /\ main \in AllSettings
    /\ clock = T(6 * 60)
    /\ inputs = Updates
    /\ cmdFrom = clock
    /\ maxLive = MaxLive

Next ==
    \/ MainStart
    \/ Tick
    \/ SchedNext
    \/ SchedWake
    \/ SweepLookupReturn
    \/ SweepNotifyReturn
    \/ SweepGapOver
    \/ HandleUpdate
    \/ AwaitUpdate
    \/ \E b \in Slots : BatchStart(b)
    \/ \E b \in Slots : BatchLookupReturn(b)
    \/ \E b \in Slots : BatchSendReturn(b)
    \/ \E b \in Slots : BatchGapOver(b)
    \/ \E b \in Slots : BatchExit(b)

Spec == Init /\ [][Next]_vars

SpecCmd == InitCmd /\ [][Next]_vars

\* a VEHICLES setting with two vehicles
TwoVehicles == <<" ", "a", " ", ",", "B", ",", ",">>

\* the operator's /start, /check and /check c
OperatorUpdates ==
    { Update(masterID, "command", "start", <<>>),
      Update(masterID, "command", "check", <<>>),
      Update(masterID, "command", "check", <<" ", "c">>) }

\* The program started in the morning; the operator sends commands then, /check
\* among them while earlier checks are still running.
InitTwo ==
    /\ AtEntry
    /\ vehicles = TwoVehicles
    /\ main = GoodSettings
    /\ clock = T(6 * 60)
    /\ inputs = OperatorUpdates
    /\ cmdFrom = clock
    /\ maxLive = MaxBatches

SpecTwo == InitTwo /\ [][Next]_vars

\* a step of main that it takes by itself (HandleUpdate waits for an update)
MainStep == MainStart \/ AwaitUpdate

\* a step of the scheduler goroutine
SchedulerStep ==
    SchedNext \/ SchedWake \/ SweepLookupReturn \/ SweepNotifyReturn \/ SweepGapOver

\* a step of the /check goroutine of slot b
BatchStep(b) ==
    \/ BatchStart(b)
    \/ BatchLookupReturn(b)
    \/ BatchSendReturn(b)
    \/ BatchGapOver(b)
    \/ BatchExit(b)

\* Every call returns, every goroutine that can run does, and time goes on: it
\* is not held back for ever by steps that take no time.
Fairness ==
    /\ SF_vars(Tick)
    /\ WF_vars(MainStep)
    /\ WF_vars(SchedulerStep)
    /\ \A b \in Slots : WF_vars(BatchStep(b))

\* The program started shortly before the daily start time; the operator sends
\* /check around that time and waits for a check to end before the next one.
InitLive ==
    /\ AtEntry
    /\ vehicles \in VehicleSettings
    /\ main = GoodSettings
    /\ clock = StartT - CmdLead
    /\ inputs = CheckUpdates
    /\ cmdFrom = StartT - CmdLead
    /\ maxLive = 1

SpecLive == InitLive /\ [][Next]_vars /\ Fairness

\* The functions of package check called one at a time, outside the program.
InitFn ==
    /\ AtEntry
    /\ vehicles = <<>>
    /\ main = GoodSettings
    /\ clock = 0
    /\ inputs = {}
    /\ cmdFrom = 0
    /\ maxLive = 0

NextFn ==
    \/ CallCheckVehicle
    \/ CallFormatResult
    \/ CallParseVehicles

SpecFn == InitFn /\ [][NextFn]_vars

----------------------------------------------------------------------------
(* Properties *)

Count(log, ev) == Cardinality({k \in DOMAIN log : log[k].ev = ev})

Has(log, ev, k) == \E j \in DOMAIN log : log[j].ev = ev /\ log[j].i = k

TimeOfDay(t) == t % Day

DayOf(t) == t \div Day

\* every goroutine that checks vehicles: the sweep and the /check goroutines
Runs == {sched.run} \cup {batches[b] : b \in Slots}

\* checkAllVehicles has just returned
SweepDone == sched.pc = "loop" /\ sched.run.pc = "done"

\* the step of StartScheduler that reads now and computes next
SchedComputes == sched.pc = "loop" /\ sched'.pc = "sleep"

\* C1: when a sweep over a list of n > 1 vehicles returns, it has called
\* CheckVehicle exactly n times and slept exactly n-1 times, whatever the
\* lookups and the notifications returned.
C1_SweepCallsAndSleeps ==
    (SweepDone /\ Len(vehicleList) > 1) =>
        /\ Count(sched.run.log, "lookup") = Len(vehicleList)
        /\ Count(sched.run.log, "sleep") = Len(vehicleList) - 1

C1_Witness ==
    /\ SweepDone
    /\ Len(vehicleList) = 3
    /\ sched.run.failed
    /\ Count(sched.run.log, "sleep") = 2

\* C2: in a sweep and in a /check goroutine alike, a run in which a lookup or a
\* send failed still ends with every vehicle of its list looked up and its
\* notification attempted.
C2_FailureDoesNotStopTheRun ==
    \A p \in Runs :
        (p.pc = "done" /\ p.failed) =>
            \A k \in 1 .. Len(p.regs) :
                Has(p.log, "lookup", k) /\ Has(p.log, "notify", k)

\* the sweep sleeps before its second vehicle after the first one failed, while a
\* /check goroutine looks its second vehicle up after its first one failed
C2_Witness ==
    /\ sched.pc = "sweep"
    /\ sched.run.pc = "gap"
    /\ sched.run.failed
    /\ \E b \in Slots :
          batches[b].pc = "lookup" /\ batches[b].i = 2 /\ batches[b].failed

\* the calls of p so far are those of a run in list order
InOrder(p) ==
    \A b \in DOMAIN p.log :
        LET e == p.log[b]
        IN  /\ e.i \in DOMAIN p.regs
            /\ e.reg = p.regs[e.i]
            /\ \A a \in 1 .. (b - 1) : ~(p.log[a].ev = e.ev /\ p.log[a].i = e.i)
            /\ e.ev = "notify" =>
                  \E a \in 1 .. (b - 1) : p.log[a].ev = "lookup" /\ p.log[a].i = e.i
            /\ e.ev = "lookup" =>
                  \A k \in 1 .. (e.i - 1) :
                      \E a, c \in 1 .. (b - 1) :
                          /\ a < c
                          /\ p.log[a].ev = "lookup" /\ p.log[a].i = k
                          /\ p.log[c].ev = "notify" /\ p.log[c].i = k

\* C3: within a sweep or a /check goroutine the vehicles are looked up in list
\* order and notified in the same order: the lookup and the notification of
\* position i come before the lookup of any position j > i.
C3_ListOrder == \A p \in Runs : InOrder(p)

C3_Witness ==
    \E b \in Slots :
        /\ batches[b].pc = "done"
        /\ Len(batches[b].regs) = 3
        /\ Count(batches[b].log, "notify") = 3

\* p sleeps minutes between two vehicles, and not before the first one
CooldownKept(p, minutes) ==
    /\ p.pc = "gap" => p.wake = p.ended + T(minutes)
    /\ (p.pc = "lookup" /\ p.i > 1) => p.at >= p.ended + T(minutes)
    /\ (p.pc = "lookup" /\ p.i = 1) => p.log = <<Entry("lookup", 1, p.regs[1])>>

C5_SweepGapTenMinutes ==
    (sched.pc = "sweep" /\ sched.run.pc = "gap") =>
        sched.run.wake = sched.run.ended + T(10)

\* C6: for now before 18:00 of its day the computed trigger is 18:00 of that day,
\* for now after 18:00 it is 18:00 of the following day.
C6_TriggerDay ==
    [][SchedComputes =>
          LET now == clock
              next == sched'.next
          IN  /\ TimeOfDay(now) < T(18 * 60) =>
                    DayOf(next) = DayOf(now) /\ TimeOfDay(next) = T(18 * 60)
              /\ TimeOfDay(now) > T(18 * 60) =>
                    DayOf(next) = DayOf(now) + 1 /\ TimeOfDay(next) = T(18 * 60)]_vars

\* the scheduler read now in the morning and sleeps until 18:00 of the same day
C6_Witness ==
    /\ sched.pc = "sleep"
    /\ clock = T(9 * 60)
    /\ sched.next = T(18 * 60)
    /\ sched.wake = sched.next

\* C7 as claimed: the computed trigger is strictly after now, so the scheduler
\* always waits a positive time.
C7_TriggerStrictlyAfterNow ==
    [][SchedComputes => (sched'.next > clock /\ sched'.wake > clock)]_vars

\* C7 as amended: the computed trigger is the first 18:00 that is not before now;
\* it is now itself exactly when now is 18:00:00, and the sleep then returns at
\* once; in every other case the scheduler waits a positive time.
C7_TriggerNotBeforeNow ==
    [][SchedComputes =>
          /\ TimeOfDay(sched'.next) = T(18 * 60)
          /\ sched'.next >= clock
          /\ sched'.next - clock < Day
          /\ sched'.wake = sched'.next
          /\ (sched'.next = clock) <=> (TimeOfDay(clock) = T(18 * 60))]_vars

\* a scheduler whose trigger is the present instant, 18:00
C7_Witness ==
    /\ sched.pc = "sleep"
    /\ clock = T(18 * 60)
    /\ sched.next = clock
    /\ sched.wake = clock

\* C8: a sweep only starts at 18:00, and a scheduler that sleeps after 18:00 of a
\* day (it started, or its sweep returned, after that 18:00) sleeps until 18:00
\* of the next day: the occurrence it missed is not made up for.
C8_NoCatchUp ==
    /\ (sched.pc = "sweep" /\ sched.run.pc = "lookup" /\ sched.run.i = 1) =>
           TimeOfDay(sched.run.at) = T(18 * 60)
    /\ (SweepDone /\ sched.run.regs = <<>>) => TimeOfDay(sched.run.at) = T(18 * 60)
    /\ sched.pc = "sleep" =>
           /\ clock <= sched.wake
           /\ sched.wake = IF clock > T(18 * 60) THEN Day + T(18 * 60) ELSE T(18 * 60)

\* the sweep of the day has returned and the scheduler sleeps until tomorrow
C8_Witness ==
    /\ sched.pc = "sleep"
    /\ TimeOfDay(clock) > T(18 * 60)
    /\ TimeOfDay(clock) < T(19 * 60)
    /\ sched.wake = Day + T(18 * 60)
    /\ Len(vehicleList) = 2

\* C9: an update from a chat that is not the operator's, whatever it carries,
\* sends nothing, starts no goroutine and leaves every goroutine as it was.
C9_OnlyTheOperator ==
    [][(update = NoUpdate /\ update' # NoUpdate /\ update'.chat # masterID) =>
          /\ sent' = NoMsg
          /\ ~launched'.started
          /\ batches' = batches
          /\ sched' = sched]_vars

C9_Witness ==
    /\ update.chat = otherID
    /\ update.kind = "command"
    /\ update.command = "check"
    /\ sent = NoMsg
    /\ \A b \in Slots : batches[b].pc = "none"

\* the list /check is to start a goroutine for, for the arguments of the model
C10_Expected(args) ==
    CASE args = <<" ", "c">> -> << <<"C">> >>
      [] args = <<"a", " ">> -> << <<"A">> >>
      [] OTHER -> vehicleList

\* C10: the operator's /check without an argument starts a goroutine over the
\* configured list; with an argument it starts one over exactly the argument in
\* upper case, configured or not, and that goroutine makes one lookup and never
\* sleeps.
C10_CheckCommand ==
    /\ [][(update = NoUpdate /\ update' # NoUpdate /\ update'.chat = masterID
            /\ update'.kind = "command" /\ update'.command = "check") =>
             /\ launched' = [started |-> TRUE, regs |-> C10_Expected(update'.args)]
             /\ \E b \in Slots :
                   /\ batches[b].pc = "none"
                   /\ batches'[b].pc = "spawned"
                   /\ batches'[b].regs = C10_Expected(update'.args)
                   /\ \A c \in Slots \ {b} : batches'[c] = batches[c]]_vars
    /\ [](\A b \in Slots :
             Len(batches[b].regs) = 1 =>
                 /\ batches[b].pc # "gap"
                 /\ Count(batches[b].log, "sleep") = 0
                 /\ batches[b].pc = "done" => Count(batches[b].log, "lookup") = 1)

\* a goroutine for a registration that is not configured has made its one lookup
C10_Witness ==
    \E b \in Slots :
        /\ batches[b].pc = "done"
        /\ batches[b].regs = << <<"C">> >>
        /\ Count(batches[b].log, "lookup") = 1
        /\ \A k \in DOMAIN vehicleList : vehicleList[k] # <<"C">>

\* the loop over updates takes an update of the operator that is a command
OperatorCommand ==
    /\ update = NoUpdate
    /\ update' # NoUpdate
    /\ update'.chat = masterID
    /\ update'.kind = "command"

BadSettings ==
    \/ main.bot_token = ""
    \/ vehicles = <<>>
    \/ main.masterIDStr \in {<<>>, <<"x">>, <<"-">>, <<"7", "x">>}
    \/ main.apiURL = ""

\* C12: with one of the four required settings missing, or a MASTER_ID that is
\* no integer, main returns without serving: the scheduler is never started, no
\* update is ever handled, no goroutine is started, nothing is looked up or sent.
C12_BadSettingsNeverServe ==
    BadSettings =>
        /\ main.pc \in {"boot", "exited"}
        /\ sched.pc = "none"
        /\ sched.run = Idle
        /\ \A b \in Slots : batches[b] = Idle
        /\ update = NoUpdate
        /\ sent = NoMsg

\* main has returned for the one reason that the API URL is missing
C12_Witness ==
    /\ main.pc = "exited"
    /\ main.apiURL = ""
    /\ main.bot_token # ""
    /\ vehicles # <<>>
    /\ main.masterIDStr = MasterSetting
    /\ main.botOK
    /\ InCmdWindow

\* C13: one CheckVehicle call takes exactly one response from the upstream; on
\* 200 with a decodable body it returns the body and no error; on 429 it returns
\* no result and the rate-limit error, whose text no other outcome (another
\* status, a transport failure, a body that does not decode) is given; on every
\* status other than 200 it returns no result and an error.
C13_OneRequestClassified ==
    call.fn = "CheckVehicle" =>
        LET resp == call.in[1]
            r == call.out.r
            answered == resp.post = "ok"
            rateLimit == <<"rate limited (429): too many requests, try again later">>
        IN  /\ call.out.upstream = Tail(call.in)
            /\ (answered /\ resp.StatusCode = 200 /\ resp.decodes) =>
                   (r.data = resp.body /\ r.err = <<>>)
            /\ (answered /\ resp.StatusCode = 429) =>
                   (r.data = "nil" /\ r.err = rateLimit)
            /\ ~(answered /\ resp.StatusCode = 429) =>
                   (r.err = <<>> \/ r.err[1] # rateLimit[1])
            /\ (answered /\ resp.StatusCode # 200) =>
                   (r.data = "nil" /\ r.err # <<>>)
            /\ ~answered => (r.data = "nil" /\ r.err # <<>>)

\* a call answered 429 while the upstream would have answered 200 to a second request
C13_Witness ==
    /\ call.fn = "CheckVehicle"
    /\ call.in[1].StatusCode = 429
    /\ call.in[2].StatusCode = 200
    /\ call.in[2].decodes
    /\ call.out.r.err = ErrRateLimited
    /\ Len(call.out.upstream) = 1

\* the kinds of the lines of a text
LineKinds(text) == {text[k][1] : k \in DOMAIN text}

\* C14: for a response whose status is not "success", whatever offences and
\* inspection records it carries, the text of FormatResult has the "no results
\* found" line and no offence header, inspection header, offence block or
\* inspection block.
C14_NoResultsOnly ==
    (call.fn = "FormatResult" /\ call.in.Status # "success") =>
        /\ "no results" \in LineKinds(call.out)
        /\ LineKinds(call.out) \subseteq {"title", "rule", "no results"}
        /\ Len(call.out) = 3

\* a response with an empty status that carries two offences and an inspection
C14_Witness ==
    /\ call.fn = "FormatResult"
    /\ call.in.Status = ""
    /\ Len(call.in.PendingTransactions) = 2
    /\ Len(call.in.InspectionData) = 1
    /\ call.out = << <<"title", <<"A">> >>, <<"rule">>, <<"no results">> >>

\* positions of str that hold neither a blank nor a comma
Significant(str) == {k \in DOMAIN str : str[k] \notin {" ", ","}}

\* positions a <= b of str with no comma from a to b
SameSegment(str, a, b) == \A k \in a .. b : str[k] # ","

\* the first significant position of each segment that has one
SegmentStarts(str) ==
    {a \in Significant(str) :
        \A j \in Significant(str) : j < a => ~SameSegment(str, j, a)}

\* the last significant position of the segment of a
SegmentEnd(str, a) ==
    CHOOSE b \in Significant(str) :
        /\ a <= b
        /\ SameSegment(str, a, b)
        /\ \A c \in Significant(str) : (b < c) => ~SameSegment(str, a, c)

\* C15: ParseVehicles returns one token for each segment that is not blank, in
\* the order of the segments; the token is the segment without the blanks
\* around it, in upper case: no token is empty, starts or ends with a blank or
\* holds a lower-case letter.  " t945cap , T267DFF ,," gives T945CAP, T267DFF.
C15_ParseVehicles ==
    call.fn = "ParseVehicles" =>
        LET str == call.in
            out == call.out
            starts == SegmentStarts(str)
        IN  /\ Len(out) = Cardinality(starts)
            /\ \A a \in starts :
                   LET j == Cardinality({c \in starts : c <= a})
                       b == SegmentEnd(str, a)
                   IN  /\ Len(out[j]) = (b - a) + 1
                       /\ \A k \in 1 .. Len(out[j]) :
                              LET c == str[(a + k) - 1]
                              IN  out[j][k] = CASE c = "a" -> "A"
                                                [] c = "b" -> "B"
                                                [] c = "t" -> "T"
                                                [] c = "c" -> "C"
                                                [] c = "p" -> "P"
                                                [] OTHER -> c
            /\ \A j \in DOMAIN out :
                   /\ out[j] # <<>>
                   /\ out[j][1] # " "
                   /\ out[j][Len(out[j])] # " "
                   /\ \A k \in DOMAIN out[j] :
                          ~(\E l \in DOMAIN LowerCase : LowerCase[l] = out[j][k])
            /\ str = ExampleVehicles =>
                   out = << <<"T", "9", "4", "5", "C", "A", "P">>,
                            <<"T", "2", "6", "7", "D", "F", "F">> >>

\* the example of the specification has been parsed
C15_Witness ==
    /\ call.fn = "ParseVehicles"
    /\ call.in = ExampleVehicles
    /\ Len(call.out) = 2

\* the text is the error message that names reg
IsErrorText(msg, reg) ==
    Len(msg) = 1 /\ msg[1][1] = "failed to check" /\ msg[1][2] = reg

\* the text is the report on reg
IsReport(msg, reg) == Len(msg) >= 2 /\ msg[1] = <<"title", reg>>

\* the calls of the sink for position k in the log
Notified(log, k) == Cardinality({j \in DOMAIN log : log[j].ev = "notify" /\ log[j].i = k})

C17_OneLookupAtATime ==
    Cardinality({b \in Slots : batches[b].pc = "lookup"})
        + (IF sched.pc = "sweep" /\ sched.run.pc = "lookup" THEN 1 ELSE 0) <= 1

\* the first lookup of a sweep over the configured list is in progress, or the
\* sweep over an empty list has been made
SweepStarted ==
    \/ /\ sched.pc = "sweep"
       /\ sched.run.pc = "lookup"
       /\ sched.run.i = 1
       /\ sched.run.regs = vehicleList
    \/ SweepDone /\ vehicleList = <<>>

\* C18: when every call returns, a sweep that has started returns, whatever its
\* lookups and sends returned; the scheduler then computes a new trigger at 18:00
\* and sleeps, and a sleeping scheduler starts a sweep over the configured list.
C18_SchedulerLoopsForever ==
    /\ (sched.pc = "sweep") ~> SweepDone
    /\ SweepDone ~> (sched.pc = "sleep" /\ TimeOfDay(sched.next) = T(18 * 60))
    /\ (sched.pc = "sleep") ~> SweepStarted

\* a sweep in which every vehicle failed has returned
C18_Witness ==
    /\ SweepDone
    /\ Len(vehicleList) = 2
    /\ sched.run.failed
    /\ Count(sched.run.log, "notify") = 2
    /\ TimeOfDay(clock) > T((18 * 60) + 30)

\* C19: the loop over updates does not wait for a /check goroutine.  When the
\* operator's /check has been handled, the acknowledgement has been sent and the
\* goroutine started for it has made no lookup yet, while the goroutines
\* started before are as they were; and whenever main is at the head of the
\* loop and an update arrives, the update is handled, whatever the goroutines
\* are doing.
C19_LoopNeverWaits ==
    /\ [][(OperatorCommand /\ update'.command = "check") =>
             /\ sent' = <<"Checking vehicle(s)", Len(launched'.regs)>>
             /\ \E b \in Slots :
                   /\ batches[b].pc = "none"
                   /\ batches'[b].pc = "spawned"
                   /\ batches'[b].log = <<>>
                   /\ \A c \in Slots \ {b} : batches'[c] = batches[c]]_vars
    /\ []((main.pc = "serving" /\ update = NoUpdate /\ InCmdWindow)
             => ENABLED HandleUpdate)

\* while one /check goroutine sleeps between two vehicles and a second one,
\* started later, is in its lookup, a further command has been answered
C19_Witness ==
    /\ update.command = "start"
    /\ sent = start_txt
    /\ \E b, c \in Slots :
          /\ batches[b].pc = "gap"
          /\ batches[c].pc = "lookup"
          /\ batches[c].regs = << <<"C">> >>

====
